---- MODULE Spec2Model ----
(***************************************************************************)
(* Model of simple_financial_planner.py: the two calculators, the tool     *)
(* registry and catalog, the dispatcher invoke_tools_from_response, the    *)
(* orchestrator run_agent_turn and the session loop main.                  *)
(*                                                                         *)
(* Numbers.  A JSON value is a record [k, v].  k is the Python type of the *)
(* value after json.loads:                                                 *)
(*   "int"   an int of ordinary size, v is its value                       *)
(*   "bool"  True / False, v is 1 / 0 (bool is a subclass of int)          *)
(*   "tiny"  a positive float x so small that 1 + x == 1.0 (e.g. 1e-20)    *)
(*   "big"   a positive int of 4300 decimal digits, the longest literal    *)
(*           json.loads accepts; it does not fit a float, and twelve times *)
(*           it has more digits than str() of an int may produce           *)
(*   "str", "null", "list", "obj"  the JSON values that are not numbers    *)
(* Floats computed by the calculators are fixed-point integers in units of *)
(* 1/SCALE; SCALE is 1200 so that pct/100/12 and pct/100 are exact.        *)
(* Rounded outputs are [k |-> "cents", v] (v hundredths); an int too long  *)
(* to print is [k |-> "oversize"].  A text is a sequence of fragments, so  *)
(* that an f-string is the concatenation of its parts.                     *)
(***************************************************************************)
EXTENDS Integers, Sequences, FiniteSets, TLC

VARIABLES
    TOOLS,                 \* module global, lines 122-201
    TOOL_MAPPING,          \* module global, lines 115-118
    pc,                    \* where main / run_agent_turn stands
    previous_response_id,  \* main's variable, line 287 (0 is None)
    request,               \* the client.responses.create call in flight
    response,              \* run_agent_turn's response; main's after the return
    printed,               \* what main printed last
    escaped,               \* the exception that ended the process, if any
    next_id,               \* backend: id of the next response
    calls,                 \* history: backend calls issued in this turn
    received,              \* history: per response of this turn, its number
                           \* of function_call items
    turns,                 \* history: turns started
    d_pc,                  \* dispatcher harness: "ready" / "done"
    d_response,            \* the response handed to the dispatcher
    d_out,                 \* what invoke_tools_from_response returned or raised
    calc_pc,               \* calculator harness: "ready" / "done"
    calc_tool,             \* the calculator called
    calc_args,             \* its arguments, by parameter name
    calc_out               \* what the call returned or raised

globals == <<TOOLS, TOOL_MAPPING>>
agent_vars == <<pc, previous_response_id, request, response, printed, escaped,
                next_id, calls, received, turns>>
disp_vars == <<d_pc, d_response, d_out>>
calc_vars == <<calc_pc, calc_tool, calc_args, calc_out>>
vars == <<globals, agent_vars, disp_vars, calc_vars>>

SCALE == 1200

\* Stand-in for the largest finite double: pow() raises OverflowError when
\* its result exceeds PowMax / SCALE.
PowMax == 12000

IntV(n) == [k |-> "int", v |-> n]
BoolV(b) == [k |-> "bool", v |-> IF b THEN 1 ELSE 0]
Tiny == [k |-> "tiny", v |-> 0]
Big == [k |-> "big", v |-> 0]
StrV == [k |-> "str", v |-> 0]
NullV == [k |-> "null", v |-> 0]
ListV == [k |-> "list", v |-> 0]
Cents(c) == [k |-> "cents", v |-> c]
Oversize == [k |-> "oversize", v |-> 0]

IsNumber(x) == x.k \in {"int", "bool", "tiny", "big"}

\* round(x, 2) of a fixed-point float: hundredths, to nearest
RoundCents(fp) == (fp + 6) \div 12

\* round(x, 2) of a small input number
RoundInput(x) == Cents(x.v * 100)

\* as Max, but the first argument is taken as it is
MaxOrFirst(a, b) == a

Max(a, b) == IF a >= b THEN a ELSE b

\* a / b for b # 0, rounded down
Div(a, b) == IF b > 0 THEN a \div b ELSE (0 - a) \div (0 - b)

\* outcome of a Python call: a returned mapping or a raised exception
Return(m) == [raised |-> FALSE, exc |-> "", result |-> m]
Raise(e) == [raised |-> TRUE, exc |-> e, result |-> << >>]

\* math.pow(base, n) for a fixed-point base >= 0 and an int n >= 0, by
\* square and multiply, each product rounded down to the grid; -1 when
\* the result leaves the float range (math.pow then raises OverflowError)
RECURSIVE PowFP(_, _)
PowFP(base, n) ==
    IF n = 0 THEN SCALE
    ELSE LET half == PowFP(base, n \div 2)
             sq == (half * half) \div SCALE
             full == IF n % 2 = 1 THEN (sq * base) \div SCALE ELSE sq
         IN  IF half < 0 \/ sq > PowMax \/ full > PowMax THEN -1 ELSE full

PowOverflows(p) == p < 0

(***************************************************************************)
(* calculate_sip_projection, lines 14-46.                                  *)
(***************************************************************************)
SipSuccess(mi, pct, years, total, value, gain) ==
    Return([monthly_investment |-> mi,
            expected_annual_return_pct |-> pct,
            years |-> years,
            total_invested |-> total,
            projected_value |-> value,
            projected_gain |-> gain])

calculate_sip_projection(monthly_investment, expected_annual_return_pct, years) ==
    LET mi == monthly_investment
        pct == expected_annual_return_pct
    IN
    IF ~IsNumber(years) THEN Raise("TypeError")                    \* line 23
    ELSE IF years.k # "big" /\ years.v <= 0
    THEN Return([error |-> <<"Years must be > 0">>])
    ELSE IF ~IsNumber(pct) THEN Raise("TypeError")                 \* line 28
    ELSE IF pct.k = "big" THEN Raise("OverflowError")
    ELSE IF pct.k # "tiny" /\ pct.v = 0                            \* line 31
    THEN \* r == 0: future_value = monthly_investment * n, all in ints
         IF ~IsNumber(mi) THEN Raise("TypeError")                  \* lines 32-37
         ELSE IF mi.k # "big" /\ mi.v = 0
         THEN SipSuccess(mi, pct, years, Cents(0), Cents(0), Cents(0))
         ELSE IF mi.k = "big" \/ years.k = "big"
         THEN SipSuccess(mi, pct, years, Oversize, Oversize, Cents(0))
         ELSE LET total == mi.v * (years.v * 12) * 100
              IN  SipSuccess(mi, pct, years, Cents(total), Cents(total), Cents(0))
    ELSE \* r # 0: future_value = monthly_investment * ((pow(1 + r, n) - 1) / r)
         IF years.k = "big" THEN Raise("OverflowError")            \* line 34
         ELSE
         LET n == years.v * 12                                     \* line 29
             p == IF pct.k = "tiny" THEN SCALE ELSE PowFP(SCALE + pct.v, n)
         IN  IF PowOverflows(p) THEN Raise("OverflowError")
             ELSE IF ~IsNumber(mi) THEN Raise("TypeError")
             ELSE IF mi.k = "big" THEN Raise("OverflowError")
             ELSE LET annuity == IF pct.k = "tiny" THEN 0
                                 ELSE Div((p - SCALE) * SCALE, pct.v)
                      future_value == mi.v * annuity
                      total_invested == mi.v * n * SCALE             \* line 36
                      gain == future_value - total_invested        \* line 37
                  IN  SipSuccess(mi, pct, years,
                                 Cents(RoundCents(total_invested)),
                                 Cents(RoundCents(future_value)),
                                 Cents(RoundCents(gain)))

(***************************************************************************)
(* plan_retirement_goal, lines 49-111.                                     *)
(***************************************************************************)
\* retirement_age - current_age (line 65): "neg", "zero", "pos" for the sign
\* of a difference that involves a big int, else the difference itself
YearsToRetirement(current_age, retirement_age) ==
    IF current_age.k = "big" /\ retirement_age.k = "big" THEN [big |-> FALSE, v |-> 0]
    ELSE IF retirement_age.k = "big" THEN [big |-> TRUE, v |-> 1]
    ELSE IF current_age.k = "big" THEN [big |-> TRUE, v |-> -1]
    ELSE [big |-> FALSE, v |-> retirement_age.v - current_age.v]

\* as RetirementSipError, but the error result keeps one more derived field
RetirementSipErrorKeepsTarget(message, required_corpus) ==
    Return([error |-> <<message>>,
            required_corpus |-> Cents(RoundCents(required_corpus)),
            target_monthly_at_retirement |-> Cents(RoundCents(required_corpus \div 300))])

\* the error results of lines 84-87 and 93-96
RetirementSipError(message, required_corpus) ==
    Return([error |-> <<message>>,
            required_corpus |-> Cents(RoundCents(required_corpus))])

plan_retirement_goal(current_age, retirement_age, monthly_expense_today, inflation_pct, expected_return_pct_during_accumulation, current_corpus) ==
    LET ret_pct == expected_return_pct_during_accumulation
    IN
    IF ~IsNumber(current_age) \/ ~IsNumber(retirement_age)
    THEN Raise("TypeError")                                        \* line 65
    ELSE
    LET ytr == YearsToRetirement(current_age, retirement_age)
    IN
    IF ytr.v <= 0                                                  \* line 66
    THEN Return([error |-> <<"Retirement age must be greater than current age.">>])
    ELSE IF ~IsNumber(inflation_pct) THEN Raise("TypeError")       \* line 70
    ELSE IF inflation_pct.k = "big" THEN Raise("OverflowError")
    ELSE IF ytr.big THEN Raise("OverflowError")                    \* line 71, pow
    ELSE
    LET years_to_retirement == ytr.v
        infl_pow == IF inflation_pct.k = "tiny" THEN SCALE
                    ELSE PowFP(SCALE + 12 * inflation_pct.v, years_to_retirement)
    IN
    IF PowOverflows(infl_pow) THEN Raise("OverflowError")
    ELSE IF ~IsNumber(monthly_expense_today) THEN Raise("TypeError")
    ELSE IF monthly_expense_today.k = "big" THEN Raise("OverflowError")
    ELSE
    LET target_monthly_at_retirement == monthly_expense_today.v * infl_pow
        required_corpus == target_monthly_at_retirement * 300      \* lines 74-76
    IN
    IF ~IsNumber(current_corpus) THEN Raise("TypeError")           \* line 79
    ELSE IF current_corpus.k = "big" THEN Raise("OverflowError")
    ELSE IF ~IsNumber(ret_pct) THEN Raise("TypeError")             \* line 80
    ELSE IF ret_pct.k = "big" THEN Raise("OverflowError")
    ELSE
    LET goal_amount == Max(required_corpus - current_corpus.v * SCALE, 0)
        n == years_to_retirement * 12                              \* line 81
    IN
    IF n <= 0 \/ (ret_pct.k # "tiny" /\ ret_pct.v <= 0)            \* line 83
    THEN RetirementSipError("Invalid inputs for SIP calculation.", required_corpus)
    ELSE
    LET p == IF ret_pct.k = "tiny" THEN SCALE ELSE PowFP(SCALE + ret_pct.v, n)
    IN
    IF PowOverflows(p) THEN Raise("OverflowError")                 \* line 91
    ELSE
    LET denom == p - SCALE
    IN
    IF denom = 0                                                   \* line 92
    THEN RetirementSipError("Mathematical error in SIP calculation.", required_corpus)
    ELSE
    LET required_monthly_sip == (goal_amount * ret_pct.v) \div denom  \* line 98
    IN
    Return([current_age |-> current_age,
            retirement_age |-> retirement_age,
            years_to_retirement |-> IntV(years_to_retirement),
            monthly_expense_today |-> RoundInput(monthly_expense_today),
            inflation_pct |-> inflation_pct,
            expected_return_pct_during_accumulation |-> ret_pct,
            current_corpus |-> RoundInput(current_corpus),
            target_monthly_at_retirement |-> Cents(RoundCents(target_monthly_at_retirement)),
            required_corpus |-> Cents(RoundCents(required_corpus)),
            required_monthly_sip |-> Cents(RoundCents(required_monthly_sip))])

(***************************************************************************)
(* Registry and catalog, lines 114-201.                                    *)
(***************************************************************************)
ToolNames == {"calculate_sip_projection", "plan_retirement_goal"}

\* TOOL_MAPPING as built at import, lines 115-118
ToolMappingAtImport ==
    [calculate_sip_projection |-> "calculate_sip_projection",
     plan_retirement_goal |-> "plan_retirement_goal"]

\* TOOLS as built at import, lines 122-201 (descriptions left out)
ToolsAtImport ==
    << [type |-> "function",
        name |-> "calculate_sip_projection",
        properties |-> {"monthly_investment", "expected_annual_return_pct", "years"},
        required |-> {"monthly_investment", "expected_annual_return_pct", "years"}],
       [type |-> "function",
        name |-> "plan_retirement_goal",
        properties |-> {"current_age", "retirement_age", "monthly_expense_today",
                        "inflation_pct", "expected_return_pct_during_accumulation",
                        "current_corpus"},
        required |-> {"current_age", "retirement_age", "monthly_expense_today",
                      "inflation_pct", "expected_return_pct_during_accumulation"}] >>

\* "type" of a declared property, and the one declared "minimum"
PropertyType(property) ==
    IF property \in {"years", "current_age", "retirement_age"}
    THEN "integer" ELSE "number"
AtLeastMinimum(property, n) == property = "years" => n >= 1

\* the def signatures, lines 14-18 and 49-56
Params(tool) ==
    IF tool = "calculate_sip_projection"
    THEN {"monthly_investment", "expected_annual_return_pct", "years"}
    ELSE {"current_age", "retirement_age", "monthly_expense_today", "inflation_pct",
          "expected_return_pct_during_accumulation", "current_corpus"}

ParamsWithDefault(tool) ==
    IF tool = "calculate_sip_projection" THEN {} ELSE {"current_corpus"}

DefaultCorpus == IntV(0)

(***************************************************************************)
(* invoke_tools_from_response, lines 205-242.                              *)
(*                                                                         *)
(* item.arguments is [form, json]: form "empty" is the empty string,       *)
(* "invalid" a text json.loads rejects, "json" a text that parses to json. *)
(* A parsed object is [k |-> "obj", members |-> name -> value].            *)
(***************************************************************************)
ObjectV(members) == [k |-> "obj", v |-> 0, members |-> members]
EmptyText == [form |-> "empty", json |-> NullV]
InvalidText == [form |-> "invalid", json |-> NullV]
JsonText(value) == [form |-> "json", json |-> value]

\* json.loads(item.arguments) if item.arguments else {}, line 226
JsonLoads(arguments) ==
    IF arguments.form = "empty" THEN [raised |-> FALSE, exc |-> "", value |-> ObjectV(<< >>)]
    ELSE IF arguments.form = "invalid"
    THEN [raised |-> TRUE, exc |-> "JSONDecodeError", value |-> NullV]
    ELSE [raised |-> FALSE, exc |-> "", value |-> arguments.json]

\* does tool(**args) bind its parameters (line 227)?
Binds(tool, args) ==
    /\ args.k = "obj"
    /\ DOMAIN args.members \subseteq Params(tool)
    /\ Params(tool) \ ParamsWithDefault(tool) \subseteq DOMAIN args.members

\* tool(**args), line 227, for args that bind
CallBound(tool, m) ==
    IF tool = "calculate_sip_projection"
    THEN calculate_sip_projection(m.monthly_investment,
                                  m.expected_annual_return_pct, m.years)
    ELSE plan_retirement_goal(m.current_age, m.retirement_age,
                              m.monthly_expense_today, m.inflation_pct,
                              m.expected_return_pct_during_accumulation,
                              IF "current_corpus" \in DOMAIN m
                              THEN m.current_corpus ELSE DefaultCorpus)

\* the try block, lines 226-228
TryTool(tool, arguments) ==
    LET loaded == JsonLoads(arguments)
    IN  IF loaded.raised THEN Raise(loaded.exc)
        ELSE IF ~Binds(tool, loaded.value) THEN Raise("TypeError")
        ELSE CallBound(tool, loaded.value.members)

\* is the calculator's body entered for this request?
Invokes(item, mapping) ==
    /\ item.type = "function_call"
    /\ item.name \in DOMAIN mapping
    /\ ~JsonLoads(item.arguments).raised
    /\ Binds(mapping[item.name], JsonLoads(item.arguments).value)

UnknownToolError(tool_name) ==                                  \* lines 221-223
    [error |-> <<"No local implementation for tool '", tool_name, "'">>]

ToolExceptionError(tool_name, e) ==                             \* lines 230-232
    [error |-> <<"Exception while running tool '", tool_name, "': ", e>>]

\* tool_output for one function_call item, lines 217-232
ToolOutput(item, mapping) ==
    IF item.name \notin DOMAIN mapping                          \* lines 218-219
    THEN UnknownToolError(item.name)
    ELSE LET outcome == TryTool(mapping[item.name], item.arguments)
         IN  IF outcome.raised
             THEN ToolExceptionError(item.name, outcome.exc)
             ELSE outcome.result

\* json.dumps(tool_output), line 238: str() of an int of more than 4300
\* digits raises ValueError; otherwise the text is identified by the value
\* it encodes
DumpsRaises(tool_output) ==
    \E f \in DOMAIN tool_output : f # "error" /\ tool_output[f].k = "oversize"

JsonDumps(tool_output) == [json_text_of |-> tool_output]

FunctionCallOutput(item, tool_output) ==                        \* lines 235-239
    [type |-> "function_call_output",
     call_id |-> item.call_id,
     output |-> JsonDumps(tool_output)]

\* the loop of lines 214-240 from item i on; acc is messages_to_model
RECURSIVE DispatchFrom(_, _, _, _)
DispatchFrom(output, i, acc, mapping) ==
    IF i > Len(output) THEN [raised |-> FALSE, exc |-> "", messages |-> acc]
    ELSE IF output[i].type # "function_call"                    \* line 216
    THEN DispatchFrom(output, i + 1, acc, mapping)
    ELSE LET tool_output == ToolOutput(output[i], mapping)
         IN  IF DumpsRaises(tool_output)
             THEN [raised |-> TRUE, exc |-> "ValueError", messages |-> acc]
             ELSE DispatchFrom(output, i + 1,
                               Append(acc, FunctionCallOutput(output[i], tool_output)),
                               mapping)

\* as invoke_tools_from_response, but the loop starts one item late
InvokeToolsSkipFirst(resp, mapping) ==
    DispatchFrom(resp.output, 2, << >>, mapping)

\* as invoke_tools_from_response, but tool_output is computed for the first
\* request only and reused for the requests after it
InvokeToolsSharedOutput(resp, mapping) ==
    LET d == DispatchFrom(resp.output, 1, << >>, mapping)
    IN  [d EXCEPT !.messages =
            [k \in 1..Len(d.messages) |->
                [d.messages[k] EXCEPT !.output = d.messages[1].output]]]

invoke_tools_from_response(resp, mapping) ==
    DispatchFrom(resp.output, 1, << >>, mapping)

(***************************************************************************)
(* What the backend can send.                                              *)
(***************************************************************************)
MaxItems == 2      \* items per response
MaxCalls == 4      \* backend calls per session
MaxTurns == 2      \* turns per session
MaxCallId == 2     \* distinct call identifiers

UnknownTool == "get_stock_price"

SipOkArgs == JsonText(ObjectV([monthly_investment |-> IntV(10),
                               expected_annual_return_pct |-> IntV(12),
                               years |-> IntV(1)]))
SipBigArgs == JsonText(ObjectV([monthly_investment |-> Big,
                                expected_annual_return_pct |-> IntV(0),
                                years |-> IntV(1)]))
SipExtraArgs == JsonText(ObjectV([monthly_investment |-> IntV(10),
                                  expected_annual_return_pct |-> IntV(12),
                                  years |-> IntV(1),
                                  currency |-> StrV]))
SipStrArgs == JsonText(ObjectV([monthly_investment |-> IntV(10),
                                expected_annual_return_pct |-> IntV(12),
                                years |-> StrV]))
SipLongArgs == JsonText(ObjectV([monthly_investment |-> IntV(10),
                                 expected_annual_return_pct |-> IntV(12),
                                 years |-> IntV(10000)]))
RetZeroRateArgs == JsonText(ObjectV([current_age |-> IntV(30),
                                     retirement_age |-> IntV(31),
                                     monthly_expense_today |-> IntV(100),
                                     inflation_pct |-> IntV(6),
                                     expected_return_pct_during_accumulation |-> IntV(0)]))
ListArgs == JsonText(ListV)

FunctionCall(name, arguments, call_id) ==
    [type |-> "function_call", name |-> name, arguments |-> arguments,
     call_id |-> call_id, text |-> ""]
Reasoning ==
    [type |-> "reasoning", name |-> "", arguments |-> EmptyText,
     call_id |-> 0, text |-> ""]
Message(text) ==
    [type |-> "message", name |-> "", arguments |-> EmptyText,
     call_id |-> 0, text |-> text]

SeqsUpTo(S, n) == UNION {[1..m -> S] : m \in 0..n}

\* every payload shape, for the dispatcher on its own
AllArguments == {EmptyText, InvalidText, ListArgs, SipOkArgs, SipBigArgs,
                 SipExtraArgs, SipStrArgs, SipLongArgs, RetZeroRateArgs}
AllItems == {Reasoning, Message("answer")}
            \cup {FunctionCall(nm, a, c) : nm \in ToolNames \cup {UnknownTool},
                                          a \in AllArguments, c \in 1..MaxCallId}

\* one request of each outcome, for the conversation
TurnItems == {Reasoning, Message("answer"),
              FunctionCall("calculate_sip_projection", SipOkArgs, 1),
              FunctionCall("calculate_sip_projection", SipBigArgs, 2),
              FunctionCall("calculate_sip_projection", InvalidText, 1),
              FunctionCall("plan_retirement_goal", RetZeroRateArgs, 2),
              FunctionCall(UnknownTool, EmptyText, 1)}

IsFunctionCall(item) == item.type = "function_call"
FunctionCalls(output) == SelectSeq(output, IsFunctionCall)
IsMessage(item) == item.type = "message"

\* response.output_text, line 300: the texts of the message items
RECURSIVE OutputText(_)
OutputText(output) ==
    IF output = << >> THEN << >>
    ELSE IF IsMessage(Head(output))
         THEN <<Head(output).text>> \o OutputText(Tail(output))
         ELSE OutputText(Tail(output))

(***************************************************************************)
(* The dispatcher on its own: one response, one call.                      *)
(***************************************************************************)
NoResponse == [id |-> 0, output |-> << >>]
NoDispatch == [raised |-> FALSE, exc |-> "none", messages |-> << >>]

Dispatch ==
    /\ d_pc = "ready"
    /\ d_out' = invoke_tools_from_response(d_response, TOOL_MAPPING)
    /\ d_pc' = "done"
    /\ UNCHANGED <<globals, agent_vars, d_response, calc_vars>>

(***************************************************************************)
(* main and run_agent_turn, lines 245-302.                                 *)
(*   pc = "input"     main at line 290                                     *)
(*   pc = "await"     run_agent_turn inside client.responses.create        *)
(*   pc = "dispatch"  run_agent_turn at line 262                           *)
(*   pc = "print"     run_agent_turn returned, main at line 298            *)
(*   pc = "exited"    main left its loop                                   *)
(*   pc = "crashed"   an exception left main                               *)
(***************************************************************************)
UserLines == {" How much will my SIP grow? ", "exit", " QUIT "}

\* str.strip() and str.lower(), lines 290-291, on the lines above
Strip(line) ==
    IF line = " QUIT " THEN "QUIT"
    ELSE IF line = " How much will my SIP grow? " THEN "How much will my SIP grow?"
    ELSE line

Lower(text) ==
    IF text = "QUIT" THEN "quit"
    ELSE IF text = "How much will my SIP grow?" THEN "how much will my sip grow?"
    ELSE text

IsSentinel(line) == Lower(Strip(line)) \in {"exit", "quit"}

NoRequest == [input |-> << >>, tools |-> << >>, previous_response_id |-> 0]
NoText == <<"nothing printed">>
Farewell == <<"Agent: Bye! Remember, always double-check with a human advisor.">>

\* the two client.responses.create calls, lines 253-258 and 269-274
InitialRequest(user_input, prev_id, tools) ==
    [input |-> <<user_input>>, tools |-> tools,
     previous_response_id |-> prev_id]

\* as FollowUpRequest, but continuing from the response before the latest
FollowUpRequestStaleId(function_messages, resp, tools) ==
    [input |-> function_messages, tools |-> tools,
     previous_response_id |-> resp.id - 1]

\* as FollowUpRequest, but without the catalog
FollowUpRequestNoTools(function_messages, resp, tools) ==
    [input |-> function_messages, tools |-> << >>,
     previous_response_id |-> resp.id]

FollowUpRequest(function_messages, resp, tools) ==
    [input |-> function_messages, tools |-> tools,
     previous_response_id |-> resp.id]

\* as NoToolsToCall, but a single pending tool output also ends the turn
NoToolsToCallOrOne(function_messages) == Len(function_messages) <= 1

\* "if not function_messages", line 264
NoToolsToCall(function_messages) == function_messages = << >>

AgentInit ==
    /\ pc = "input"
    /\ previous_response_id = 0
    /\ request = NoRequest
    /\ response = NoResponse
    /\ printed = NoText
    /\ escaped = "none"
    /\ next_id = 1
    /\ calls = 0
    /\ received = << >>
    /\ turns = 0

\* lines 290-293: a sentinel ends the session
ReadExit ==
    /\ pc = "input"
    /\ \E line \in UserLines :
         /\ IsSentinel(line)
         /\ printed' = Farewell
    /\ pc' = "exited"
    /\ UNCHANGED <<globals, previous_response_id, request, response, escaped,
                   next_id, calls, received, turns, disp_vars, calc_vars>>

\* lines 290-295 and 253-258: any other line starts a turn
StartTurn ==
    /\ pc = "input"
    /\ turns < MaxTurns
    /\ next_id <= MaxCalls
    /\ \E line \in UserLines :
         /\ ~IsSentinel(line)
         /\ request' = InitialRequest(Strip(line), previous_response_id, TOOLS)
    /\ pc' = "await"
    /\ calls' = 1
    /\ received' = << >>
    /\ turns' = turns + 1
    /\ UNCHANGED <<globals, previous_response_id, response, printed, escaped,
                   next_id, disp_vars, calc_vars>>

\* the backend answers the call in flight
BackendReply ==
    /\ pc = "await"
    /\ \E output \in SeqsUpTo(TurnItems, MaxItems) :
         /\ response' = [id |-> next_id, output |-> output]
         /\ received' = Append(received, Len(FunctionCalls(output)))
    /\ next_id' = next_id + 1
    /\ request' = NoRequest
    /\ pc' = "dispatch"
    /\ UNCHANGED <<globals, previous_response_id, printed, escaped, calls, turns,
                   disp_vars, calc_vars>>

\* the call in flight raises (nothing in the program catches it)
BackendRaises ==
    /\ pc = "await"
    /\ escaped' = "APIError"
    /\ request' = NoRequest
    /\ pc' = "crashed"
    /\ UNCHANGED <<globals, previous_response_id, response, printed, next_id,
                   calls, received, turns, disp_vars, calc_vars>>

\* lines 262-266: nothing to call, the turn returns its response
TurnReturns ==
    /\ pc = "dispatch"
    /\ LET d == invoke_tools_from_response(response, TOOL_MAPPING)
       IN  /\ ~d.raised
           /\ NoToolsToCall(d.messages)
    /\ pc' = "print"
    /\ UNCHANGED <<globals, previous_response_id, request, response, printed,
                   escaped, next_id, calls, received, turns, disp_vars, calc_vars>>

\* lines 262-274: the tool outputs go back to the backend
TurnResubmits ==
    /\ pc = "dispatch"
    /\ next_id <= MaxCalls
    /\ LET d == invoke_tools_from_response(response, TOOL_MAPPING)
       IN  /\ ~d.raised
           /\ ~NoToolsToCall(d.messages)
           /\ request' = FollowUpRequest(d.messages, response, TOOLS)
    /\ calls' = calls + 1
    /\ pc' = "await"
    /\ UNCHANGED <<globals, previous_response_id, response, printed, escaped,
                   next_id, received, turns, disp_vars, calc_vars>>

\* line 262: the dispatcher raises, and the exception leaves main
TurnCrashes ==
    /\ pc = "dispatch"
    /\ LET d == invoke_tools_from_response(response, TOOL_MAPPING)
       IN  /\ d.raised
           /\ escaped' = d.exc
    /\ pc' = "crashed"
    /\ UNCHANGED <<globals, previous_response_id, request, response, printed,
                   next_id, calls, received, turns, disp_vars, calc_vars>>

\* as PrintAnswer, but line 302 is left out
PrintAnswerKeepsId ==
    /\ pc = "print"
    /\ printed' = OutputText(response.output)
    /\ response' = NoResponse
    /\ pc' = "input"
    /\ UNCHANGED <<globals, previous_response_id, request, escaped, next_id,
                   calls, received, turns, disp_vars, calc_vars>>

\* lines 298-302
PrintAnswer ==
    /\ pc = "print"
    /\ printed' = OutputText(response.output)
    /\ previous_response_id' = response.id
    /\ response' = NoResponse          \* main's response is dead after line 302
    /\ pc' = "input"
    /\ UNCHANGED <<globals, request, escaped, next_id, calls, received, turns,
                   disp_vars, calc_vars>>

GlobalsInit == TOOLS = ToolsAtImport /\ TOOL_MAPPING = ToolMappingAtImport
AgentOff ==
    /\ pc = "off" /\ previous_response_id = 0 /\ request = NoRequest
    /\ response = NoResponse /\ printed = NoText /\ escaped = "none"
    /\ next_id = 1 /\ calls = 0 /\ received = << >> /\ turns = 0
DispatchOff == d_pc = "off" /\ d_response = NoResponse /\ d_out = NoDispatch

(***************************************************************************)
(* The calculators on their own: one call of one calculator with           *)
(* arguments of every JSON type the dispatcher can bind to a parameter.    *)
(***************************************************************************)
MaxYears == 2

NotNumbers == {StrV, NullV, ListV}
SipMoneyValues == {IntV(0), IntV(10), Big} \cup NotNumbers
SipRateValues == {IntV(-5), IntV(0), IntV(12), Tiny, Big, StrV}
SipYearValues == {IntV(y) : y \in -1..MaxYears} \cup {IntV(10000), BoolV(TRUE), Big, StrV}

AgeValues == {IntV(30 + d) : d \in -1..MaxYears} \cup {Big, StrV}
ExpenseValues == {IntV(-100), IntV(0), IntV(100), Big, StrV}
InflationValues == {IntV(0), IntV(6), Tiny, Big, NullV}
ReturnValues == {IntV(-5), IntV(0), IntV(12), Tiny, Big, StrV}
CorpusValues == {IntV(0), IntV(100000), Big, StrV}

SipArgs == [monthly_investment : SipMoneyValues,
            expected_annual_return_pct : SipRateValues,
            years : SipYearValues]

RetirementArgs == [current_age : {IntV(30), Big, StrV},
                   retirement_age : AgeValues,
                   monthly_expense_today : ExpenseValues,
                   inflation_pct : InflationValues,
                   expected_return_pct_during_accumulation : ReturnValues,
                   current_corpus : CorpusValues]

NoOutcome == [raised |-> FALSE, exc |-> "none", result |-> << >>]

CalcOff ==
    /\ calc_pc = "off" /\ calc_tool = "none" /\ calc_args = << >>
    /\ calc_out = NoOutcome

CalcInit ==
    /\ GlobalsInit /\ AgentOff /\ DispatchOff
    /\ calc_pc = "ready"
    /\ calc_tool \in {"calculate_sip_projection", "plan_retirement_goal"}
    /\ calc_args \in IF calc_tool = "calculate_sip_projection"
                     THEN SipArgs ELSE RetirementArgs
    /\ calc_out = NoOutcome

CallSip ==
    /\ calc_pc = "ready"
    /\ calc_tool = "calculate_sip_projection"
    /\ calc_out' = calculate_sip_projection(calc_args.monthly_investment,
                                            calc_args.expected_annual_return_pct,
                                            calc_args.years)
    /\ calc_pc' = "done"
    /\ UNCHANGED <<globals, agent_vars, disp_vars, calc_tool, calc_args>>

CallRetirement ==
    /\ calc_pc = "ready"
    /\ calc_tool = "plan_retirement_goal"
    /\ calc_out' = plan_retirement_goal(calc_args.current_age,
                                        calc_args.retirement_age,
                                        calc_args.monthly_expense_today,
                                        calc_args.inflation_pct,
                                        calc_args.expected_return_pct_during_accumulation,
                                        calc_args.current_corpus)
    /\ calc_pc' = "done"
    /\ UNCHANGED <<globals, agent_vars, disp_vars, calc_tool, calc_args>>

CalcNext == CallSip \/ CallRetirement

SpecCalc == CalcInit /\ [][CalcNext]_vars

CalcReturned == calc_pc = "done" /\ ~calc_out.raised


(***************************************************************************)
(* The three specifications.                                               *)
(***************************************************************************)
DispatchInit ==
    /\ GlobalsInit /\ AgentOff /\ CalcOff
    /\ d_pc = "ready"
    /\ d_response \in {[id |-> 1, output |-> o] : o \in SeqsUpTo(AllItems, MaxItems)}
    /\ d_out = NoDispatch

DispatchNext == Dispatch

SpecDispatch == DispatchInit /\ [][DispatchNext]_vars

Init == GlobalsInit /\ AgentInit /\ DispatchOff /\ CalcOff

Next ==
    \/ ReadExit
    \/ StartTurn
    \/ BackendReply
    \/ BackendRaises
    \/ TurnReturns
    \/ TurnResubmits
    \/ TurnCrashes
    \/ PrintAnswer

Spec == Init /\ [][Next]_vars

(***************************************************************************)
(* Properties.                                                             *)
(***************************************************************************)
DispatchDone == d_pc = "done"
Requests == FunctionCalls(d_response.output)
ToolFailures == {"ValueError", "TypeError", "OverflowError", "JSONDecodeError"}

\* C1: for a response with k function_call items the dispatcher returns
\* exactly k function_call_output entries, the i-th carrying the call_id of
\* the i-th function_call item, whatever the tools and their outcomes.
C1_OneResultPerRequest ==
    DispatchDone =>
        /\ ~d_out.raised
        /\ Len(d_out.messages) = Len(Requests)
        /\ \A i \in 1..Len(Requests) :
             /\ d_out.messages[i].type = "function_call_output"
             /\ d_out.messages[i].call_id = Requests[i].call_id

\* the outputs a request may get: the calculator's result, or an error
\* object naming the tool
NamesTool(tool_output, name) ==
    /\ DOMAIN tool_output = {"error"}
    /\ \E i \in 1..Len(tool_output.error) : tool_output.error[i] = name

IsCalculatorResult(item, tool_output) ==
    /\ item.name \in ToolNames
    /\ Binds(item.name, JsonLoads(item.arguments).value)
    /\ LET outcome == CallBound(item.name, JsonLoads(item.arguments).value.members)
       IN  ~outcome.raised /\ outcome.result = tool_output

\* C2: no exception escapes invoke_tools_from_response: for every
\* function_call request, whatever its tool name and argument payload, the
\* call returns and the request's output is the calculator's result or an
\* object with an 'error' field naming the tool.
C2_NoExceptionEscapes ==
    DispatchDone =>
        /\ ~d_out.raised
        /\ Len(d_out.messages) = Len(Requests)
        /\ \A i \in 1..Len(Requests) :
             LET tool_output == d_out.messages[i].output.json_text_of
             IN  \/ NamesTool(tool_output, Requests[i].name)
                 \/ IsCalculatorResult(Requests[i], tool_output)

AllHadTools(n) == \A i \in 1..n : received[i] > 0

\* C3: a turn issues exactly one backend call when its first response holds
\* no tool request, exactly m+1 calls when the first m responses hold tool
\* requests and the next holds none, and no call after a response that
\* holds none.
C3_RoundTrips ==
    /\ pc = "await" => calls = Len(received) + 1 /\ AllHadTools(Len(received))
    /\ pc = "dispatch" => calls = Len(received) /\ AllHadTools(Len(received) - 1)
    /\ pc = "print" =>
         /\ calls = Len(received)
         /\ AllHadTools(Len(received) - 1)
         /\ received[Len(received)] = 0

C3_Witness == pc = "print" /\ calls = 3 /\ received = <<2, 1, 0>>

\* C4: the response run_agent_turn returns is the last one the backend
\* sent in the turn and holds no function_call item, message text or not.
C4_ReturnsLastToolFreeResponse ==
    pc = "print" =>
        /\ response.id = next_id - 1
        /\ FunctionCalls(response.output) = << >>

C4_Witness ==
    /\ pc = "print" /\ calls = 2
    /\ OutputText(response.output) # << >>

TurnInputs == {<<Strip(line)>> : line \in {l \in UserLines : ~IsSentinel(l)}}

\* C5: the first request of a turn carries the user input and the caller's
\* continuation identifier; every later request carries the dispatcher's
\* results for the most recently received response and that response's id,
\* never an older id nor the caller's id again.
C5_RequestChaining ==
    pc = "await" =>
        IF calls = 1
        THEN /\ request.input \in TurnInputs
             /\ request.previous_response_id = previous_response_id
        ELSE /\ request.input =
                  invoke_tools_from_response(response, TOOL_MAPPING).messages
             /\ request.previous_response_id = response.id
             /\ response.id = next_id - 1
             /\ request.previous_response_id # previous_response_id

C5_Witness ==
    /\ pc = "await" /\ calls = 3 /\ previous_response_id = 1
    /\ request.previous_response_id = 3

\* C6: every turn ends with the final text of a backend response printed;
\* no tool or numeric failure ends the turn or the session without one.
C6_NoToolFailureEndsTheSession ==
    pc = "crashed" => escaped \notin ToolFailures

SuccessFields(tool) ==
    IF tool = "calculate_sip_projection"
    THEN {"monthly_investment", "expected_annual_return_pct", "years",
          "total_invested", "projected_value", "projected_gain"}
    ELSE {"current_age", "retirement_age", "years_to_retirement",
          "monthly_expense_today", "inflation_pct",
          "expected_return_pct_during_accumulation", "current_corpus",
          "target_monthly_at_retirement", "required_corpus",
          "required_monthly_sip"}

FullSuccess == DOMAIN calc_out.result = SuccessFields(calc_tool)
ErrorOnly == DOMAIN calc_out.result = {"error"}
SipErrorWithCorpus ==
    /\ calc_tool = "plan_retirement_goal"
    /\ DOMAIN calc_out.result = {"error", "required_corpus"}
    /\ calc_out.result.error \in {<<"Invalid inputs for SIP calculation.">>,
                                  <<"Mathematical error in SIP calculation.">>}

\* C7 as stated: a calculator result is fully successful (every derived
\* field, no 'error') or carries the one field 'error' and nothing else.
C7_SuccessOrErrorOnly ==
    CalcReturned => FullSuccess \/ ErrorOnly

\* C7 amended: a calculator result is fully successful, or carries 'error'
\* alone, or is one of plan_retirement_goal's two SIP-calculation errors,
\* which carry 'error' and required_corpus and nothing else.
C7_SuccessOrErrorWithCorpus ==
    CalcReturned => FullSuccess \/ ErrorOnly \/ SipErrorWithCorpus

C7_Witness == CalcReturned /\ SipErrorWithCorpus

\* C8: neither calculator raises, whatever JSON values are bound to its
\* parameters; every failure is an {error: message} result.
C8_CalculatorsNeverRaise ==
    calc_pc = "done" => ~calc_out.raised /\ (FullSuccess \/ "error" \in DOMAIN calc_out.result)

UnknownRequests(output) ==
    {i \in 1..Len(output) :
        IsFunctionCall(output[i]) /\ output[i].name \notin DOMAIN TOOL_MAPPING}

\* the entry of a follow-up request that answers item i of the response
AnswersUnknown(input, output, i) ==
    LET k == Len(FunctionCalls(SubSeq(output, 1, i)))
    IN  /\ k <= Len(input)
        /\ input[k].call_id = output[i].call_id
        /\ input[k].output = JsonDumps(UnknownToolError(output[i].name))

\* C9: a request for a tool outside TOOL_MAPPING invokes no calculator, gets
\* the result {error: "No local implementation for tool '<name>'"}, does not
\* stop the requests after it, and is resubmitted to the backend; it neither
\* ends nor fails the turn.
C9_UnknownToolIsReported ==
    \A i \in UnknownRequests(response.output) :
        /\ ~Invokes(response.output[i], TOOL_MAPPING)
        /\ pc # "print"
        /\ pc = "crashed" => escaped = "APIError"
        /\ pc = "await" =>
             /\ AnswersUnknown(request.input, response.output, i)
             /\ Len(request.input) = Len(FunctionCalls(response.output))

\* C10: every backend request carries the catalog TOOLS, and TOOLS and
\* TOOL_MAPPING stay as built at import.
C10_SameCatalogEverywhere ==
    /\ TOOLS = ToolsAtImport
    /\ TOOL_MAPPING = ToolMappingAtImport
    /\ pc = "await" => request.tools = ToolsAtImport

C10_Witness == pc = "await" /\ calls = 2 /\ turns = 2 /\ request.tools = ToolsAtImport

LastHadTools == received[Len(received)] > 0

\* C11: run_agent_turn has no iteration limit: once a response is received,
\* the turn goes on to another backend call when the response holds a tool
\* request, however many calls went before, and is done when it holds none;
\* nothing else ends the loop.
C11_LoopsWhileToolsRequested ==
    [][pc = "dispatch" =>
          IF LastHadTools THEN pc' \in {"dispatch", "await"}
                          ELSE pc' \in {"dispatch", "print"}]_vars

CallIds(items) == [i \in 1..Len(items) |-> items[i].call_id]

\* the latest response has been through the dispatcher
Dispatched ==
    \/ pc = "await" /\ calls > 1
    \/ pc = "print"
    \/ pc = "crashed" /\ escaped \in ToolFailures

\* C12: every response received in a turn is dispatched once and each of
\* its requests is executed once: the call_ids sent back after a response
\* are exactly the call_ids requested in it, one result each, with no result
\* of an earlier response resent and none withheld.
C12_ResubmitsExactlyTheRequested ==
    Dispatched =>
        /\ response.id = next_id - 1
        /\ pc = "crashed" => FunctionCalls(response.output) = << >>
        /\ pc = "await" =>
             CallIds(request.input) = CallIds(FunctionCalls(response.output))

\* the identifier main holds between turns and hands to the next turn
CarriedId ==
    /\ turns = 0 => previous_response_id = 0
    /\ pc = "input" /\ turns > 0 =>
         /\ previous_response_id = next_id - 1
         /\ ~LastHadTools
    /\ pc = "await" /\ calls = 1 =>
         request.previous_response_id = previous_response_id

\* main assigns the identifier only at line 302, from the returned response
AssignedAtReturn ==
    IF pc = "print" /\ pc' = "input"
    THEN /\ previous_response_id' = response.id
         /\ FunctionCalls(response.output) = << >>
    ELSE previous_response_id' = previous_response_id

\* C13: the first turn starts with no continuation identifier; every later
\* turn starts with the id of the final, tool-free response the turn before
\* it returned, never the id of an intermediate response that requested
\* tools nor the id an older turn left.
C13_CarriesFinalResponseId ==
    []CarriedId /\ [][AssignedAtReturn]_vars

C13_Witness ==
    /\ pc = "await" /\ calls = 1 /\ turns = 2
    /\ received = << >> /\ request.previous_response_id = 2

RetirementDone == calc_pc = "done" /\ calc_tool = "plan_retirement_goal"

\* the three degenerate cases, read off the arguments
RetiresNoLater(a) ==
    /\ IsNumber(a.current_age) /\ IsNumber(a.retirement_age)
    /\ YearsToRetirement(a.current_age, a.retirement_age).v <= 0

ReturnNotPositive(a) ==
    /\ a.expected_return_pct_during_accumulation.k \in {"int", "bool"}
    /\ a.expected_return_pct_during_accumulation.v <= 0

\* pow(1 + r, n) - 1 == 0 for r > 0: r is lost in 1 + r
DenominatorZero(a) == a.expected_return_pct_during_accumulation.k = "tiny"

CorpusError(message) ==
    /\ DOMAIN calc_out.result = {"error", "required_corpus"}
    /\ calc_out.result.error = <<message>>

\* C14: plan_retirement_goal checks its degenerate cases in a fixed order:
\* retirement_age <= current_age gives exactly the age error whatever the
\* other arguments; otherwise a return <= 0 gives "Invalid inputs for SIP
\* calculation." with required_corpus; otherwise a zero annuity denominator
\* gives "Mathematical error in SIP calculation." with required_corpus;
\* otherwise the result is the success mapping, without an error field.
C14_DegenerateCasesInOrder ==
    RetirementDone =>
        /\ ~calc_out.raised
        /\ IF RetiresNoLater(calc_args)
           THEN calc_out.result =
                  [error |-> <<"Retirement age must be greater than current age.">>]
           ELSE IF ReturnNotPositive(calc_args)
           THEN CorpusError("Invalid inputs for SIP calculation.")
           ELSE IF DenominatorZero(calc_args)
           THEN CorpusError("Mathematical error in SIP calculation.")
           ELSE FullSuccess

\* what a request's tool name and argument payload determine on their own
OwnOutput(item) == JsonDumps(ToolOutput(item, ToolMappingAtImport))

RetirementSuccess == RetirementDone /\ ~calc_out.raised /\ FullSuccess

SipDone == calc_pc = "done" /\ calc_tool = "calculate_sip_projection"

\* x >= 0 for a number x
NotNegative(x) == IsNumber(x) /\ (x.k \in {"int", "bool"} => x.v >= 0)

YearsNotPositive(years) == years.k \in {"int", "bool"} /\ years.v <= 0
YearsAtLeastOne(years) == years.k \in {"int", "big"} /\ ~YearsNotPositive(years)

IsZero(x) == x.k \in {"int", "bool"} /\ x.v = 0

\* C17: for monthly_investment >= 0, expected_annual_return_pct >= 0 and
\* integer years >= 1 calculate_sip_projection returns a success result
\* with projected_value >= total_invested (projected_gain >= 0), equal
\* when the return is 0; for years <= 0 it returns exactly the error
\* "Years must be > 0", whatever the other two arguments are.
C17_ValueCoversInvestment ==
    SipDone =>
        IF YearsNotPositive(calc_args.years)
        THEN /\ ~calc_out.raised
             /\ calc_out.result = [error |-> <<"Years must be > 0">>]
        ELSE /\ NotNegative(calc_args.monthly_investment)
             /\ NotNegative(calc_args.expected_annual_return_pct)
             /\ YearsAtLeastOne(calc_args.years)
             => /\ ~calc_out.raised
                /\ FullSuccess
                /\ calc_out.result.projected_value.k = calc_out.result.total_invested.k
                /\ calc_out.result.projected_value.v >= calc_out.result.total_invested.v
                /\ calc_out.result.projected_gain.v >= 0
                /\ IsZero(calc_args.expected_annual_return_pct) =>
                     calc_out.result.projected_value = calc_out.result.total_invested

\* a JSON value against a declared property: its type, and its minimum
\* where one is declared
ValueValid(property, x) ==
    /\ x.k \in (IF PropertyType(property) = "integer"
                THEN {"int", "big"} ELSE {"int", "tiny", "big"})
    /\ x.k = "int" => AtLeastMinimum(property, x.v)

\* an argument payload against a catalog entry: an object that holds the
\* required properties, with every declared property it holds valid; the
\* entries declare nothing about other property names
SchemaValid(arguments, entry) ==
    /\ arguments.form = "json"
    /\ arguments.json.k = "obj"
    /\ entry.required \subseteq DOMAIN arguments.json.members
    /\ \A p \in DOMAIN arguments.json.members \cap entry.properties :
         ValueValid(p, arguments.json.members[p])

CatalogValid(item) ==
    \E i \in 1..Len(TOOLS) :
        TOOLS[i].name = item.name /\ SchemaValid(item.arguments, TOOLS[i])

CatalogAgrees ==
    /\ \A i, j \in 1..Len(TOOLS) : TOOLS[i].name = TOOLS[j].name => i = j
    /\ {TOOLS[i].name : i \in 1..Len(TOOLS)} = DOMAIN TOOL_MAPPING
    /\ \A i \in 1..Len(TOOLS) :
         LET tool == TOOL_MAPPING[TOOLS[i].name]
         IN  /\ TOOLS[i].properties = Params(tool)
             /\ TOOLS[i].required = Params(tool) \ ParamsWithDefault(tool)

\* the errors the dispatcher makes up for a name it cannot use: the tool's
\* (lines 218-223) or a parameter's (tool(**args) at line 227)
NameError(item, tool_output) ==
    \/ tool_output = UnknownToolError(item.name)
    \/ /\ item.name \in DOMAIN TOOL_MAPPING
       /\ ~JsonLoads(item.arguments).raised
       /\ ~Binds(TOOL_MAPPING[item.name], JsonLoads(item.arguments).value)
       /\ tool_output = ToolExceptionError(item.name, "TypeError")

\* C18: catalog and registry agree: the names in TOOLS are unique and are
\* the keys of TOOL_MAPPING, each entry's required parameters are the
\* calculator's parameters without default and its property names are the
\* calculator's parameter names; hence a request naming a catalog tool with
\* a schema-valid argument object never gets "No local implementation ..."
\* nor an "Exception while running tool ..." for a missing or unexpected
\* argument name.
C18_CatalogMatchesRegistry ==
    /\ CatalogAgrees
    /\ DispatchDone =>
         \A k \in 1..Len(d_out.messages) :
             CatalogValid(Requests[k]) =>
                 ~NameError(Requests[k], d_out.messages[k].output.json_text_of)

====
